---------------------------- MODULE Spec2Model ----------------------------
(***************************************************************************)
(* mdp (scottbarnes/mdp, main.go): a markdown previewer.  One process      *)
(* either converts a markdown file to an HTML file (one-shot mode) or      *)
(* watches the file, serves its rendering on :5052/content and tells a     *)
(* browser, over :5052/websocket, to reload after a write (watch mode).    *)
(*                                                                         *)
(* The model holds the goroutines of the program (main, the serveContent   *)
(* goroutine started by run, fileWatcher, its event pump, one ws handler   *)
(* per WebSocket connection), the two unbuffered channels rebuild and      *)
(* serverUp (a send and a receive are one rendezvous step), the TCP port,  *)
(* and the part of the environment the program reads: the watched file,    *)
(* the template file, the output path, the queue of the OS watch.          *)
(***************************************************************************)
EXTENDS Integers, Sequences, FiniteSets, Bags

\* ------------------------------------------------------------------ bounds
\* write events the OS watch reports during one run
MaxWrites == 2
\* events held by the OS watch before the event pump takes them
MaxQueue == 1
\* WebSocket connections opened during one run: one for each rebuild and the
\* one left waiting after the last
MaxConns == MaxWrites + 1
\* GET /content requests handled during one run
MaxRequests == 2

\* ------------------------------------------------------- values of the model
\* exitCode of a process that has not exited
NotExited == -1
\* the result of a failed os.ReadFile / parseContent (the nil slice)
NoBytes == <<"nil">>
\* The outcomes of parsing the command line: it parses, help was asked
\* for (flag.ErrHelp), or it does not parse (unknown flag, missing value).
FlagErrs == {"nil", "ErrHelp", "error"}

\* command lines: -infile, -outfile, -t present or absent
InFilenames == {"", "a.md"}
OutFilenames == {"", "a.html"}
TemplateNames == {"", "t.tmpl"}
\* markdown sources the watched file can hold: a heading with text, and text
\* followed by raw HTML
Sources == {<<"#", "x">>, <<"x", "<script>">>}

\* ---------------------------------------------------------------- Renderer
\* md.Convert: goldmark turns a heading into an h1 element, keeps text and,
\* without the unsafe option, replaces raw HTML by a comment.
RECURSIVE Convert(_)
Convert(input) ==
    IF input = <<>> THEN <<>>
    ELSE LET t == Head(input)
             out == IF t = "#" THEN <<"<h1>">>
                    ELSE IF t = "<script>" THEN <<"<!-- raw HTML omitted -->">>
                    ELSE <<t>>
         IN out \o Convert(Tail(input))

\* bluemonday.UGCPolicy().SanitizeBytes: drops what the policy does not allow
\* (comments, script elements), keeps the rest.
RECURSIVE SanitizeBytes(_)
SanitizeBytes(html) ==
    IF html = <<>> THEN <<>>
    ELSE LET t == Head(html)
         IN (IF t \in {"<!-- raw HTML omitted -->", "<script>"} THEN <<>> ELSE <<t>>)
            \o SanitizeBytes(Tail(html))

\* t.Execute with the default template: title, reload script, file name,
\* rule, body.
defaultTemplate(c) ==
    <<"<title>", c.Title, "<script>connect()</script>", c.FileName, "<hr>">> \o c.Body

\* t.Execute with the template file named by -t (here: a file holding the
\* body only).
alternateTemplate(c) == <<"<alt>">> \o c.Body

\* parseContent(input, inFilename, tFname); tOk tells whether the template
\* file named by tFname can be parsed when this call reads it.
\* Returns [err, data] as the Go function returns (data, err).
parseContent(input, inFname, tName, tOk) ==
    LET body == SanitizeBytes(Convert(input))
        c == [FileName |-> inFname, Title |-> "Markdown Preview Tool", Body |-> body]
    IN IF tName # "" /\ ~tOk
       THEN [err |-> TRUE, data |-> NoBytes]
       ELSE [err |-> FALSE,
             data |-> IF tName # "" THEN alternateTemplate(c) ELSE defaultTemplate(c)]

\* os.ReadFile(name) on the file system of the model: only the watched file
\* "a.md" exists, and it can be unreadable.
ReadFile(name, body, readable) ==
    IF name = "a.md" /\ readable
    THEN [err |-> FALSE, data |-> body]
    ELSE [err |-> TRUE, data |-> NoBytes]

\* ------------------------------------------------------------------- state
VARIABLES
    inFilename, outFilename, tFname,   \* the flags, as parsed by main
    flagErr,                           \* what parsing the command line found
    fileBody, fileReadable,            \* the watched file
    tmplOk,                            \* the template file parses
    outWritable, outFile,              \* the output path and what it holds
    mainpc, exitCode, usageShown,      \* the main goroutine and the process
    readDone,                          \* the process has called os.ReadFile
    input, htmlData,                   \* run's locals
    previewState,                      \* preview(host): none, opened, failed
    previewErrShown,                   \* an error of preview was shown to the user
    scpc,                              \* the goroutine `go serveContent`
    listener,                          \* who holds :5052: none, startup, main
    fwpc, pumppc,                      \* fileWatcher and its event pump
    osQueue,                           \* events of the OS watch not yet taken
    nWrites,                           \* write events the OS watch has reported
    rebuildsConsumed,                  \* receives of `for range rebuild`
    conns,                             \* the WebSocket connections (a bag)
    nRequests, lastResponse,           \* GET /content: handled, the last answer
    requestDropped                     \* a request was answered without a body

argVars == <<inFilename, outFilename, tFname, flagErr>>
fsVars == <<fileBody, fileReadable, tmplOk, outWritable, outFile>>
mainVars == <<mainpc, exitCode, usageShown, readDone, input, htmlData, previewState,
              previewErrShown>>
serveVars == <<scpc, listener>>
watchVars == <<fwpc, pumppc, osQueue, nWrites>>
httpVars == <<nRequests, lastResponse, requestDropped>>
vars == <<argVars, fsVars, mainVars, serveVars, watchVars, rebuildsConsumed, conns,
          httpVars>>

Alive == exitCode = NotExited

\* lastResponse before any request is answered
NoResponse == [written |-> FALSE, body |-> NoBytes]

\* The state when the process starts: the command line is given (the values
\* its flags hold and whether it parses), nothing has run yet.
Init ==
    /\ inFilename \in InFilenames
    /\ outFilename \in OutFilenames
    /\ tFname \in TemplateNames
    /\ flagErr \in FlagErrs
    /\ fileBody \in Sources
    /\ fileReadable \in BOOLEAN
    /\ tmplOk \in (IF tFname = "" THEN {TRUE} ELSE BOOLEAN)
    /\ outWritable \in (IF outFilename = "" THEN {TRUE} ELSE BOOLEAN)
    /\ outFile = NoBytes
    /\ mainpc = "main"
    /\ exitCode = NotExited
    /\ usageShown = FALSE
    /\ readDone = FALSE
    /\ input = NoBytes
    /\ htmlData = NoBytes
    /\ previewState = "none"
    /\ previewErrShown = FALSE
    /\ scpc = "none"
    /\ listener = "none"
    /\ fwpc = "none"
    /\ pumppc = "none"
    /\ osQueue = <<>>
    /\ nWrites = 0
    /\ rebuildsConsumed = 0
    /\ conns = EmptyBag
    /\ nRequests = 0
    /\ lastResponse = NoResponse
    /\ requestDropped = FALSE

\* ------------------------------------------------------- the main goroutine
\* main without the test of line 121.
mainNeverShowsUsage(inFname) == FALSE

\* main, line 121: no input file given.
mainShowsUsage(inFname) == inFname = ""

\* run with the errors of lines 134 and 139 dropped.
runIgnoresErr(r) == FALSE

\* run, lines 134 and 139: an error of ReadFile or parseContent is returned.
runReturnsErr(r) == r.err

\* run without the return of line 149: the output file never ends the run.
runNeverWritesOutput(outFname) == FALSE

\* run, line 144: an output file is specified.
runWritesOutput(outFname) == outFname # ""

\* saveHTML writing an empty file (the data argument dropped).
saveHTMLEmpty(outFname, data, writable, old) ==
    IF writable THEN [err |-> FALSE, file |-> <<>>] ELSE [err |-> TRUE, file |-> old]

\* saveHTML(outFname, data): os.WriteFile; writable tells whether the path
\* can be written.  Returns [err, file]: the error and what the path holds.
saveHTML(outFname, data, writable, old) ==
    IF writable THEN [err |-> FALSE, file |-> data] ELSE [err |-> TRUE, file |-> old]

\* os.Exit(code) from main.
Exit(code) ==
    /\ exitCode' = code
    /\ mainpc' = "exited"

\* flag.Parse(), line 118, on the ExitOnError flag set: -h or -help prints
\* the usage and exits with 0, any other parse error prints the error and
\* the usage and exits with 2.
flagParseExits(err) == err # "nil"

flagParseExit(err) == IF err = "ErrHelp" THEN 0 ELSE 2

\* main: the exits of flag.Parse, then flag.Usage and os.Exit(1) without
\* -infile, else run.
main ==
    /\ Alive /\ mainpc = "main"
    /\ IF flagParseExits(flagErr)
       THEN usageShown' = TRUE /\ Exit(flagParseExit(flagErr))
       ELSE IF mainShowsUsage(inFilename)
            THEN usageShown' = TRUE /\ Exit(1)
            ELSE usageShown' = FALSE /\ mainpc' = "run_read" /\ exitCode' = exitCode
    /\ UNCHANGED <<argVars, fsVars, readDone, input, htmlData, previewState, previewErrShown, serveVars,
                   watchVars, rebuildsConsumed, conns, httpVars>>

\* run, lines 133-136: read the input file; an error ends the process with 1.
run_ReadFile ==
    /\ Alive /\ mainpc = "run_read"
    /\ LET r == ReadFile(inFilename, fileBody, fileReadable)
       IN IF runReturnsErr(r)
          THEN input' = input /\ Exit(1)
          ELSE input' = r.data /\ mainpc' = "run_parse" /\ exitCode' = exitCode
    /\ readDone' = TRUE
    /\ UNCHANGED <<argVars, fsVars, usageShown, htmlData, previewState, previewErrShown, serveVars,
                   watchVars, rebuildsConsumed, conns, httpVars>>

\* run, lines 138-150: the first render; then the choice of the mode.
run_parseContent ==
    /\ Alive /\ mainpc = "run_parse"
    /\ LET p == parseContent(input, inFilename, tFname, tmplOk)
       IN IF runReturnsErr(p)
          THEN htmlData' = htmlData /\ Exit(1)
          ELSE /\ htmlData' = p.data
               /\ mainpc' = IF runWritesOutput(outFilename) THEN "run_save" ELSE "run_go"
               /\ exitCode' = exitCode
    /\ UNCHANGED <<argVars, fsVars, usageShown, readDone, input, previewState, previewErrShown, serveVars,
                   watchVars, rebuildsConsumed, conns, httpVars>>

\* run, lines 145-149, and main's return: write the output file and exit.
run_saveHTML ==
    /\ Alive /\ mainpc = "run_save"
    /\ LET s == saveHTML(outFilename, htmlData, outWritable, outFile)
       IN /\ outFile' = s.file
          /\ Exit(IF s.err THEN 1 ELSE 0)
    /\ UNCHANGED <<argVars, fileBody, fileReadable, tmplOk, outWritable, usageShown,
                   readDone, input, htmlData, previewState, previewErrShown, serveVars, watchVars,
                   rebuildsConsumed, conns, httpVars>>

\* run, lines 153-155: start the two goroutines.  A goroutine that is started
\* and has not run yet behaves as one that is not started yet, so the two go
\* statements are one step.  Nothing reads run's locals input and htmlData
\* after line 150 (serveContent gets the file name only, line 154): they are
\* dead from here on and the model holds them no longer.
run_go ==
    /\ Alive /\ mainpc = "run_go"
    /\ fwpc' = "new"
    /\ scpc' = "listen"
    /\ mainpc' = "preview"
    /\ input' = NoBytes
    /\ htmlData' = NoBytes
    /\ UNCHANGED <<argVars, fsVars, exitCode, usageShown, readDone, previewState, previewErrShown,
                   listener, pumppc, osQueue, nWrites, rebuildsConsumed, conns,
                   httpVars>>

\* preview(host), lines 308-338: returns nil or an error (OS not supported,
\* LookPath fails, the launcher fails); run drops the result (line 157).
preview(ok) == IF ok THEN "opened" ELSE "failed"

\* run, line 157: `preview(host)` is a statement of its own, its result is
\* assigned to nothing and nothing is printed or logged for it.
previewErrReported(result) == FALSE

run_preview ==
    /\ Alive /\ mainpc = "preview"
    /\ \E ok \in BOOLEAN :
          /\ previewState' = preview(ok)
          /\ previewErrShown' = previewErrReported(preview(ok))
    /\ mainpc' = "range"
    /\ UNCHANGED <<argVars, fsVars, exitCode, usageShown, readDone, input, htmlData,
                   serveVars, watchVars, rebuildsConsumed, conns, httpVars>>

\* ------------------------------------------------------------ serveContent
\* A bind that succeeds also while another listener holds the port (the
\* port opened for reuse).
bindAlways(l) == TRUE

\* http.ListenAndServe(port, mux), line 248: binding :5052 succeeds when no
\* listener holds the port, and then the call blocks; else it returns at once.
\* (The port is taken to be free of other processes.)
bindSucceeds(l) == l = "none"

\* serveContent with the token inverted: serverUp <- false.
serverUpFalse == FALSE

\* serveContent, line 249: the value sent on serverUp.
serverUpValue == TRUE

\* The connections whose handler waits in `up := <-serverUp`.
Waiting == {c \in BagToSet(conns) : c.srv = "waiting"}

\* conns with one connection in state c moved to state d.
Moved(c, d) == (conns (-) SetToBag({c})) (+) SetToBag({d})

\* The receive of line 231, as the handler of connection c sees it.
recvServerUp(c) == [c EXCEPT !.srv = "got", !.up = serverUpValue]

\* The goroutine `go serveContent(...)` of line 154: lines 238-248.
startup_ListenAndServe ==
    /\ Alive /\ scpc = "listen"
    /\ IF bindSucceeds(listener)
       THEN listener' = "startup" /\ scpc' = "listening"
       ELSE listener' = listener /\ scpc' = "up"
    /\ UNCHANGED <<argVars, fsVars, mainVars, watchVars, rebuildsConsumed, conns,
                   httpVars>>

\* The same goroutine, line 249: serverUp <- true meets a handler's receive.
startup_serverUp ==
    /\ Alive /\ scpc = "up"
    /\ \E c \in Waiting : conns' = Moved(c, recvServerUp(c))
    /\ scpc' = "done"
    /\ UNCHANGED <<argVars, fsVars, mainVars, listener, watchVars, rebuildsConsumed,
                   httpVars>>

\* run, line 160: `for range rebuild` receives what the event pump sends
\* (line 184); rebuild is unbuffered, so both move in one step.
rebuild_handoff ==
    /\ Alive /\ mainpc = "range" /\ pumppc = "send"
    /\ mainpc' = "serve_listen"
    /\ pumppc' = "select"
    /\ rebuildsConsumed' = rebuildsConsumed + 1
    /\ UNCHANGED <<argVars, fsVars, exitCode, usageShown, readDone, input, htmlData,
                   previewState, previewErrShown, serveVars, fwpc, osQueue, nWrites, conns, httpVars>>

\* run, line 161: serveContent called by the loop, lines 238-248.
loop_ListenAndServe ==
    /\ Alive /\ mainpc = "serve_listen"
    /\ IF bindSucceeds(listener)
       THEN listener' = "main" /\ mainpc' = "serve_listening"
       ELSE listener' = listener /\ mainpc' = "serve_up"
    /\ UNCHANGED <<argVars, fsVars, exitCode, usageShown, readDone, input, htmlData,
                   previewState, previewErrShown, scpc, watchVars, rebuildsConsumed, conns, httpVars>>

\* Line 249 with the token made known to every waiting handler at once (as
\* by close(serverUp)) instead of handed to one.
loop_serverUp_broadcast ==
    /\ Alive /\ mainpc = "serve_up" /\ Waiting # {}
    /\ LET rest == [c \in BagToSet(conns) \ Waiting |-> CopiesIn(c, conns)]
           got == {recvServerUp(c) : c \in Waiting}
           moved == [d \in got |->
                        CopiesIn(CHOOSE c \in Waiting : recvServerUp(c) = d, conns)]
       IN conns' = rest (+) moved
    /\ mainpc' = "range"
    /\ UNCHANGED <<argVars, fsVars, exitCode, usageShown, readDone, input, htmlData,
                   previewState, previewErrShown, serveVars, watchVars, rebuildsConsumed, httpVars>>

\* Line 249 on a serverUp with room for one value (make(chan bool, 1)): the
\* send returns without a handler receiving.
loop_serverUp_buffered ==
    /\ Alive /\ mainpc = "serve_up"
    /\ mainpc' = "range"
    /\ UNCHANGED <<argVars, fsVars, exitCode, usageShown, readDone, input, htmlData,
                   previewState, previewErrShown, serveVars, watchVars, rebuildsConsumed, conns, httpVars>>

\* The same call, line 249, and the return to line 160.
loop_serverUp ==
    /\ Alive /\ mainpc = "serve_up"
    /\ \E c \in Waiting : conns' = Moved(c, recvServerUp(c))
    /\ mainpc' = "range"
    /\ UNCHANGED <<argVars, fsVars, exitCode, usageShown, readDone, input, htmlData,
                   previewState, previewErrShown, serveVars, watchVars, rebuildsConsumed, httpVars>>

\* ------------------------------------------------------------- fileWatcher
\* log.Fatal, lines 172 and 197: the process exits with status 1.
fileWatcher_NewWatcher ==
    /\ Alive /\ fwpc = "new"
    /\ \E ok \in BOOLEAN :
          IF ok
          THEN fwpc' = "add" /\ pumppc' = "select" /\ exitCode' = exitCode
          ELSE fwpc' = fwpc /\ pumppc' = pumppc /\ exitCode' = 1
    /\ UNCHANGED <<argVars, fsVars, mainpc, usageShown, readDone, input, htmlData,
                   previewState, previewErrShown, serveVars, osQueue, nWrites, rebuildsConsumed, conns,
                   httpVars>>

\* watcher.Add(file), lines 195-200: the OS refuses a file that cannot be
\* read, and can refuse any (no watch left); after it fileWatcher blocks.
fileWatcher_Add ==
    /\ Alive /\ fwpc = "add"
    /\ \E ok \in (IF fileReadable THEN BOOLEAN ELSE {FALSE}) :
          IF ok
          THEN fwpc' = "block" /\ exitCode' = exitCode
          ELSE fwpc' = fwpc /\ exitCode' = 1
    /\ UNCHANGED <<argVars, fsVars, mainpc, usageShown, readDone, input, htmlData,
                   previewState, previewErrShown, serveVars, pumppc, osQueue, nWrites, rebuildsConsumed,
                   conns, httpVars>>

\* The watch is registered: the OS reports the events of the file.
Watching == fwpc = "block"

\* The pump without the test of line 183: every event asks for a rebuild.
eventHasAny(ev) == TRUE

\* event.Has(fsnotify.Write), line 183.
eventHasWrite(ev) == ev = "write"

\* The event pump with a send that does not wait (select with a default
\* case): a write event taken while the Orchestrator is not at its receive
\* is discarded.
pump_select_nonblocking ==
    /\ Alive /\ pumppc = "select" /\ osQueue # <<>>
    /\ pumppc' = IF Head(osQueue) # "error" /\ eventHasWrite(Head(osQueue))
                    /\ mainpc = "range"
                 THEN "send" ELSE "select"
    /\ osQueue' = Tail(osQueue)
    /\ UNCHANGED <<argVars, fsVars, mainVars, serveVars, fwpc, nWrites, rebuildsConsumed,
                   conns, httpVars>>

\* The event pump, lines 177-192: take the next event or error of the
\* watcher; a write event leads to the send of line 184, anything else
\* (another event, a logged error) back to the select.
pump_select ==
    /\ Alive /\ pumppc = "select" /\ osQueue # <<>>
    /\ pumppc' = IF Head(osQueue) # "error" /\ eventHasWrite(Head(osQueue))
                 THEN "send" ELSE "select"
    /\ osQueue' = Tail(osQueue)
    /\ UNCHANGED <<argVars, fsVars, mainVars, serveVars, fwpc, nWrites, rebuildsConsumed,
                   conns, httpVars>>

\* ---------------------------------------------------------- the HTTP handlers
\* A listener of this process holds the port: requests reach the handlers.
Serving == listener # "none"

\* ServeHTTP answering with md.body, the bytes the handler was built with
\* (line 239), instead of reading the file.
ServeHTTPStored(fname, tName, body, readable, tOk) == [written |-> TRUE, body |-> <<>>]

\* markdownHandler.ServeHTTP, lines 205-216: what the handler writes for one
\* request, from the file and the template as they are at the request.
ServeHTTP(fname, tName, body, readable, tOk) ==
    LET newInput == ReadFile(fname, body, readable)
        newHTMLData == parseContent(newInput.data, fname, tName, tOk)
    IN IF newInput.err \/ newHTMLData.err
       THEN [written |-> FALSE, body |-> <<>>]
       ELSE [written |-> TRUE, body |-> newHTMLData.data]

\* GET /content with a failure treated as run treats it at startup: the
\* process exits.
content_request_fatal ==
    /\ Alive /\ Serving /\ nRequests < MaxRequests
    /\ nRequests' = nRequests + 1
    /\ lastResponse' = ServeHTTP(inFilename, tFname, fileBody, fileReadable, tmplOk)
    /\ requestDropped' = (requestDropped \/ ~lastResponse'.written)
    /\ exitCode' = IF lastResponse'.written THEN exitCode ELSE 1
    /\ UNCHANGED <<argVars, fsVars, mainpc, usageShown, readDone, input, htmlData,
                   previewState, previewErrShown, serveVars, watchVars, rebuildsConsumed, conns>>

\* GET /content: one request, handled.
content_request ==
    /\ Alive /\ Serving /\ nRequests < MaxRequests
    /\ nRequests' = nRequests + 1
    /\ lastResponse' = ServeHTTP(inFilename, tFname, fileBody, fileReadable, tmplOk)
    /\ requestDropped' = (requestDropped \/ ~lastResponse'.written)
    /\ UNCHANGED <<argVars, fsVars, mainVars, serveVars, watchVars, rebuildsConsumed,
                   conns>>

\* ws, lines 221-231: GET /websocket is upgraded and the handler waits for
\* serverUp.  srv is the handler's place, up the value it received, frames
\* the messages the server has sent on the connection, clientOpen whether
\* the browser still holds its end.
\* close tells how the server ended the connection: "none" (not yet), "drop"
\* (the network connection closed, no close message) or "1000" (a close
\* message with status 1000 and a reason).
newConn ==
    [srv |-> "waiting", up |-> FALSE, frames |-> <<>>, clientOpen |-> TRUE,
     close |-> "none"]

ws_Upgrade ==
    /\ Alive /\ Serving /\ BagCardinality(conns) < MaxConns
    /\ conns' = conns (+) SetToBag({newConn})
    /\ UNCHANGED <<argVars, fsVars, mainVars, serveVars, watchVars, rebuildsConsumed,
                   httpVars>>

\* ws sending the message once more after line 233.
wsWriteJSONTwice(conn, sent) ==
    [conn EXCEPT !.frames = IF conn.up /\ sent
                            THEN @ \o <<"build_complete", "build_complete">> ELSE @]

\* ws, lines 232-234: c.WriteJSON(websocketEvent{Type: "build_complete"}) when
\* up is true; sent tells whether the write put the message on the wire.
wsWriteJSON(conn, sent) ==
    [conn EXCEPT !.frames = IF conn.up /\ sent THEN Append(@, "build_complete") ELSE @]

\* ws, line 228: the deferred c.Close() of gorilla/websocket closes the
\* network connection; it sends no close message.
wsClose(conn) == [conn EXCEPT !.srv = "closed", !.clientOpen = FALSE, !.close = "drop"]

\* ws, lines 232-235, the handler of a connection in state c after its
\* receive: the write, the return and the deferred close.  A write on a
\* connection whose peer is gone can fail.
ws_return(c) ==
    /\ Alive /\ c.srv = "got"
    /\ \E sent \in (IF c.clientOpen THEN {TRUE} ELSE BOOLEAN) :
          conns' = Moved(c, wsClose(wsWriteJSON(c, sent)))
    /\ UNCHANGED <<argVars, fsVars, mainVars, serveVars, watchVars, rebuildsConsumed,
                   httpVars>>

\* ------------------------------------------------------------ the environment
\* The browser closes its end of a connection whose handler waits (the page
\* is closed or reloaded, lines 60-71 of the template).
client_close(c) ==
    /\ Alive /\ c.srv = "waiting" /\ c.clientOpen
    /\ conns' = Moved(c, [c EXCEPT !.clientOpen = FALSE])
    /\ UNCHANGED <<argVars, fsVars, mainVars, serveVars, watchVars, rebuildsConsumed,
                   httpVars>>

\* The file is saved with contents src; a registered watch reports a write
\* event.
file_write(src) ==
    /\ Alive
    /\ fileBody' = src
    /\ IF Watching
       THEN /\ nWrites < MaxWrites /\ Len(osQueue) < MaxQueue
            /\ osQueue' = Append(osQueue, "write")
            /\ nWrites' = nWrites + 1
       ELSE UNCHANGED <<osQueue, nWrites>>
    /\ UNCHANGED <<argVars, fileReadable, tmplOk, outWritable, outFile, mainVars,
                   serveVars, fwpc, pumppc, rebuildsConsumed, conns, httpVars>>

\* The permissions of the file change; a registered watch reports a chmod
\* event.
file_chmod ==
    /\ Alive
    /\ fileReadable' = ~fileReadable
    /\ IF Watching
       THEN Len(osQueue) < MaxQueue /\ osQueue' = Append(osQueue, "chmod")
       ELSE UNCHANGED osQueue
    /\ UNCHANGED <<argVars, fileBody, tmplOk, outWritable, outFile, mainVars, serveVars,
                   fwpc, pumppc, nWrites, rebuildsConsumed, conns, httpVars>>

\* The watcher reports an error on watcher.Errors.
watch_error ==
    /\ Alive /\ Watching /\ Len(osQueue) < MaxQueue
    /\ osQueue' = Append(osQueue, "error")
    /\ UNCHANGED <<argVars, fsVars, mainVars, serveVars, fwpc, pumppc, nWrites,
                   rebuildsConsumed, conns, httpVars>>

\* The template file named by -t is edited: it stops or starts to parse.
template_change ==
    /\ Alive /\ tFname # ""
    /\ tmplOk' = ~tmplOk
    /\ UNCHANGED <<argVars, fileBody, fileReadable, outWritable, outFile, mainVars,
                   serveVars, watchVars, rebuildsConsumed, conns, httpVars>>

\* ------------------------------------------------------------ specification
Program ==
    \/ main \/ run_ReadFile \/ run_parseContent \/ run_saveHTML \/ run_go
    \/ run_preview
    \/ startup_ListenAndServe \/ startup_serverUp
    \/ rebuild_handoff \/ loop_ListenAndServe \/ loop_serverUp
    \/ fileWatcher_NewWatcher \/ fileWatcher_Add \/ pump_select
    \/ content_request
    \/ \E c \in BagToSet(conns) : ws_return(c)

Next ==
    \/ Program
    \/ ws_Upgrade
    \/ \E c \in BagToSet(conns) : client_close(c)
    \/ \E src \in Sources : file_write(src)
    \/ file_chmod \/ watch_error \/ template_change

Spec == Init /\ [][Next]_vars

\* ------------------------------------------- spaced writes, one test client
\* The build_complete messages the server has sent, over all connections.
RECURSIVE SentOn(_)
SentOn(S) ==
    IF S = {} THEN 0
    ELSE LET c == CHOOSE x \in S : TRUE
         IN CopiesIn(c, conns) * Len(SelectSeq(c.frames, LAMBDA f : f = "build_complete"))
            + SentOn(S \ {c})

buildCompleteSent == SentOn(BagToSet(conns))

\* The program has come to rest from the writes so far: the watch is
\* registered and has nothing to deliver, the pump is back in its select,
\* the Orchestrator is not inside a serving-cycle call, every handler that
\* got a token has returned, and, once a listener is bound, the test client
\* holds exactly one connection, open and waiting.
Settled ==
    /\ Alive /\ Watching /\ osQueue = <<>> /\ pumppc = "select"
    /\ mainpc \in {"preview", "range"}
    /\ \A c \in BagToSet(conns) : c.srv = "closed" \/ (c.srv = "waiting" /\ c.clientOpen)
    /\ Serving => \E c \in Waiting : CopiesIn(c, conns) = 1 /\ Waiting = {c}

\* A write far enough from the one before: the program is at rest.
spaced_write(src) == Settled /\ file_write(src)

\* The test client opens a connection whenever it holds none, and never
\* closes one itself.
client_reconnect ==
    /\ \A c \in BagToSet(conns) : c.srv = "closed"
    /\ ws_Upgrade

NextSpaced ==
    \/ Program
    \/ client_reconnect
    \/ \E src \in Sources : spaced_write(src)
    \/ file_chmod \/ watch_error \/ template_change

SpecSpaced == Init /\ [][NextSpaced]_vars

\* ------------------------------------------------------------------ claims
\* C1: with writes spaced so that each rebuild finishes and one test client
\* that reconnects after each server-side close, once the program is at rest
\* after N write events the Orchestrator has received from rebuild exactly N
\* times and exactly N build_complete messages have been sent to the client.
C1_ExactlyN ==
    Settled => rebuildsConsumed = nWrites /\ buildCompleteSent = nWrites

C1_Witness == Settled /\ nWrites = MaxWrites /\ buildCompleteSent = MaxWrites

\* C2: in every reachable state the build_complete messages sent over all
\* connections are at most the write events the watch has reported.
C2_NoPhantomMessage == buildCompleteSent <= nWrites

C2_Witness == nWrites = MaxWrites /\ buildCompleteSent = MaxWrites

\* C3: on every connection the server has sent at most one message, and that
\* message is build_complete.
C3_SingleMessage ==
    \A c \in BagToSet(conns) :
        /\ Len(c.frames) <= 1
        /\ \A i \in 1..Len(c.frames) : c.frames[i] = "build_complete"

C3_Witness ==
    \E c \in BagToSet(conns) : c.srv = "closed" /\ c.frames = <<"build_complete">>

\* C4: a connection on which build_complete was sent is closed by the server
\* with a close message of status 1000.
C4_ClosedWith1000 ==
    \A c \in BagToSet(conns) :
        "build_complete" \in {c.frames[i] : i \in 1..Len(c.frames)}
            => c.srv = "closed" /\ c.close = "1000"

\* C5: every answer of GET /content that has a body is the rendering of the
\* bytes the file holds when the request is handled (with the file name and
\* the template option), whatever was read at startup or by earlier requests.
C5_FreshRender ==
    [][(nRequests' = nRequests + 1 /\ lastResponse'.written)
          => /\ fileReadable'
             /\ lastResponse'.body
                  = parseContent(fileBody', inFilename, tFname, tmplOk').data]_vars

C5_Witness ==
    /\ nWrites >= 1 /\ nRequests = MaxRequests
    /\ lastResponse.written
    /\ lastResponse.body = parseContent(fileBody, inFilename, tFname, tmplOk).data
    /\ \E src \in Sources :
          lastResponse.body # parseContent(src, inFilename, tFname, tmplOk).data

\* C6: a request handled while the file cannot be read or cannot be rendered
\* gets no body and leaves the process running with its listener bound; a
\* request handled while the file can be read and rendered gets the rendered
\* page, also after earlier requests were dropped.
C6_DropThenServe ==
    [][nRequests' = nRequests + 1
          => LET p == parseContent(fileBody', inFilename, tFname, tmplOk')
             IN IF ~fileReadable' \/ p.err
                THEN /\ ~lastResponse'.written /\ lastResponse'.body = <<>>
                     /\ Alive' /\ Serving'
                ELSE lastResponse'.written /\ lastResponse'.body = p.data]_vars

C6_Witness ==
    /\ requestDropped /\ nRequests >= 2
    /\ lastResponse.written /\ Alive /\ Serving
    /\ lastResponse.body = parseContent(fileBody, inFilename, tFname, tmplOk).data

\* What GET /content would answer for source bytes src with this run's file
\* name and template option.
Served(src) == ServeHTTP(inFilename, tFname, src, TRUE, TRUE).body

\* The run was given an output path and its input was read and rendered.
OneShotRendered ==
    outFilename # "" /\ mainpc = "exited" /\ input # NoBytes /\ htmlData # NoBytes

\* C7 as claimed: one-shot mode with a readable, renderable source exits
\* with 0 and the output path holds the bytes GET /content would answer.
C7_AlwaysExitsZero ==
    OneShotRendered => exitCode = 0 /\ outFile = Served(input)

\* C7, amended: the same when the output path can be written; when it cannot,
\* the process exits with 1 and writes nothing.
C7_OneShotSameBytes ==
    OneShotRendered =>
        IF outWritable
        THEN exitCode = 0 /\ outFile = Served(input)
        ELSE exitCode = 1 /\ outFile = NoBytes

C7_Witness ==
    OneShotRendered /\ outWritable /\ exitCode = 0 /\ outFile = Served(input)

\* The places of main inside the live-reload part of run (lines 152-164).
WatchModePlaces == {"run_go", "preview", "range", "serve_listen", "serve_listening",
                    "serve_up"}

\* run is past line 150: the watcher and the server were started.
LiveReloadEntered ==
    \/ mainpc \in WatchModePlaces \ {"run_go"}
    \/ fwpc # "none" \/ scpc # "none" \/ listener # "none" \/ pumppc # "none"
    \/ previewState # "none" \/ rebuildsConsumed > 0

\* C8: with an output-file argument main goes on to its exit and never
\* starts the watcher, binds the port, opens the browser or enters the
\* rebuild loop; without one, once the first render succeeded, main never
\* exits.
C8_ModesDisjoint ==
    /\ outFilename # "" =>
          /\ ~LiveReloadEntered /\ mainpc \notin WatchModePlaces
          /\ mainpc # "exited" =>
                ENABLED (main \/ run_ReadFile \/ run_parseContent \/ run_saveHTML)
    /\ (outFilename = "" /\ (mainpc \in WatchModePlaces \/ LiveReloadEntered)) =>
          mainpc # "exited" /\ exitCode # 0

C8_Witness == outFilename # "" /\ mainpc = "exited" /\ exitCode = 0 /\ outFile # NoBytes

\* C9 as claimed: without an input file the process shows the usage and
\* exits with a status that is not 0, having read no file, started no
\* watch, bound no port, opened no browser.
C9_ExitsNonZero ==
    inFilename = "" =>
        /\ mainpc \in {"main", "exited"}
        /\ mainpc = "exited" => usageShown /\ exitCode # 0
        /\ ~readDone /\ ~LiveReloadEntered

\* C9, amended: without an input file the process shows the usage and
\* exits, having read no file, started no watch, bound no port, opened no
\* browser; the status is 1 when the command line parses, 2 when it does
\* not, and 0 when it asks for help.
C9_UsageOnly ==
    inFilename = "" =>
        /\ mainpc \in {"main", "exited"}
        /\ mainpc = "exited" =>
              /\ usageShown
              /\ exitCode = (IF flagErr = "nil" THEN 1
                             ELSE IF flagErr = "ErrHelp" THEN 0 ELSE 2)
        /\ ~readDone /\ ~LiveReloadEntered

C9_Witness ==
    /\ inFilename = "" /\ flagErr = "nil"
    /\ mainpc = "exited" /\ usageShown /\ exitCode = 1

\* The read of the input file or the first render failed.
StartupFailed == readDone /\ htmlData = NoBytes /\ mainpc = "exited"

\* C10: when the read of the input file or the first render fails, the
\* process exits with 1 and has started no watcher, bound no listener and
\* opened no browser; the live-reload part is entered only with the input
\* read and rendered.
C10_FailFast ==
    /\ StartupFailed => exitCode = 1 /\ ~LiveReloadEntered
    /\ mainpc = "run_go" =>
          /\ input # NoBytes
          /\ htmlData = parseContent(input, inFilename, tFname, TRUE).data
    /\ LiveReloadEntered => readDone /\ mainpc \in WatchModePlaces

C10_Witness ==
    /\ StartupFailed /\ outFilename = "" /\ input # NoBytes /\ exitCode = 1

\* The write events the watcher still holds for the pump.
queuedWrites == Len(SelectSeq(osQueue, LAMBDA ev : ev = "write"))

\* The write events the pump has taken from the watcher.
writesTaken == nWrites - queuedWrites

\* The pump waits in its send on rebuild (line 184).
pumpSending == IF pumppc = "send" THEN 1 ELSE 0

\* C11: the pump asks for exactly one rebuild per write event it has taken
\* from the watcher and for none per other event or error: after every step
\* the write events taken are those the Orchestrator has received from
\* rebuild, each once, plus the one the pump is waiting to hand over; a pump
\* waiting in its send leaves it only by the Orchestrator's receive.
C11_OnePerWrite ==
    [][/\ writesTaken' = rebuildsConsumed' + pumpSending'
       /\ pumppc = "send" =>
             \/ pumppc' = "send" /\ rebuildsConsumed' = rebuildsConsumed
             \/ /\ pumppc' = "select" /\ rebuildsConsumed' = rebuildsConsumed + 1
                /\ mainpc = "range"]_vars

C11_Witness ==
    /\ Alive /\ pumppc = "send" /\ mainpc \in {"serve_listen", "serve_up"}
    /\ rebuildsConsumed = 1 /\ nWrites = 2 /\ writesTaken = 2
    /\ osQueue # <<>>

\* The Orchestrator is inside the serveContent call of line 161, busy with a
\* RebuildEvent it has received.
OrchestratorBusy == mainpc \in {"serve_listen", "serve_listening", "serve_up"}

\* The write events a burst reports.
MaxBurstWrites == MaxWrites + 1

\* A burst of saves: after the first write event, every further one is
\* reported while the Orchestrator is busy with an earlier RebuildEvent.
burst_write(src) ==
    /\ Alive /\ Watching
    /\ nWrites = 0 \/ OrchestratorBusy
    /\ nWrites < MaxBurstWrites /\ Len(osQueue) < MaxQueue
    /\ fileBody' = src
    /\ osQueue' = Append(osQueue, "write")
    /\ nWrites' = nWrites + 1
    /\ UNCHANGED <<argVars, fileReadable, tmplOk, outWritable, outFile, mainVars,
                   serveVars, fwpc, pumppc, rebuildsConsumed, conns, httpVars>>

NextBurst ==
    \/ Program
    \/ ws_Upgrade
    \/ \E src \in Sources : burst_write(src)

SpecBurst == Init /\ [][NextBurst]_vars

\* The write events reported and not yet received by the Orchestrator as a
\* RebuildEvent.
writesOwed == pumpSending + queuedWrites

\* C12: write events reported while the Orchestrator is busy with
\* an earlier RebuildEvent are merged: the next receive of the Orchestrator
\* stands for all of them, none is left to cause a rebuild of its own.
C12_BurstCoalesced ==
    [][(rebuildsConsumed >= 1 /\ rebuildsConsumed' = rebuildsConsumed + 1)
          => writesOwed' = 0]_vars

\* C13: while the pump waits for the Orchestrator to receive,
\* the events and errors the watcher holds are still being taken.
C13_TakenDuringWait ==
    (Alive /\ pumppc = "send" /\ osQueue # <<>>) => ENABLED pump_select

\* The serveContent call of the goroutine of line 154 has begun and not
\* returned.
startupActive == scpc \in {"listen", "listening", "up"}

\* C14 as claimed: no two serveContent calls are in progress at once.
C14_OneActivation == ~(startupActive /\ OrchestratorBusy)

\* C14, amended: at most one listener is bound to the port, held by the one
\* serveContent call that is blocked in ListenAndServe, and the watcher and
\* its pump are started only by the one pass of run through lines 153-154;
\* two serveContent calls can be in progress at once, the one holding the
\* listener and one that is about to fail or has failed to bind.
C14_OneListener ==
    /\ listener = "startup" <=> scpc = "listening"
    /\ listener = "main" <=> mainpc = "serve_listening"
    /\ listener \in {"none", "startup", "main"}
    /\ (startupActive /\ OrchestratorBusy /\ listener # "none") =>
          \/ scpc = "listening" /\ mainpc \in {"serve_listen", "serve_up"}
          \/ mainpc = "serve_listening" /\ scpc \in {"listen", "up"}
    /\ (fwpc # "none" \/ pumppc # "none" \/ scpc # "none") =>
          mainpc \in WatchModePlaces \ {"run_go"}

C14_Witness ==
    /\ Alive /\ startupActive /\ OrchestratorBusy
    /\ listener = "startup" /\ scpc = "listening" /\ mainpc = "serve_up"
    /\ Watching

\* C15: a token of serverUp is never received by the handler of a connection
\* the browser has already closed while the handler of a connection that is
\* still open waits for one.
C15_NoStaleReceive ==
    [][\A c \in Waiting :
          (~c.clientOpen /\ conns' = Moved(c, recvServerUp(c)))
              => ~\E d \in Waiting : d.clientOpen]_vars

\* The handlers blocked in the receive of line 231.
nWaiting == BagCardinality([c \in Waiting |-> CopiesIn(c, conns)])

\* The handlers that have received a token from serverUp.
nReceived == BagCardinality(conns) - nWaiting

\* The sends on serverUp that have been completed (line 249): one per
\* serveContent call of the Orchestrator that has returned, and the one of
\* the startup goroutine when its bind failed.
tokensSent ==
    (rebuildsConsumed - (IF OrchestratorBusy THEN 1 ELSE 0))
        + (IF scpc = "done" THEN 1 ELSE 0)

\* C16: every send on serverUp is received by exactly one waiting handler:
\* the handlers that have left their wait are as many as the sends
\* completed, and every other connection is still waiting, not closed by the
\* server, with nothing sent on it.
C16_OneReceiver ==
    /\ nReceived = tokensSent
    /\ \A c \in BagToSet(conns) :
          c.srv = "waiting" => c.frames = <<>> /\ c.close = "none" /\ ~c.up

C16_Witness ==
    /\ Alive /\ scpc = "listening" /\ mainpc = "range" /\ rebuildsConsumed = 1
    /\ nWaiting = 2 /\ nReceived = 1
    /\ \A c \in BagToSet(conns) : c.clientOpen
    /\ \E c \in BagToSet(conns) : c.srv = "got" /\ c.up

\* C17: the Orchestrator returns to its receive on rebuild only after a
\* handler has received the token of the rebuild it was busy with: the
\* RebuildEvents consumed exceed the tokens received by handlers by at most
\* one, by none when the Orchestrator is back at its receive, and while it
\* waits to hand over a token with no handler waiting it can neither return
\* nor consume a further RebuildEvent.
C17_TokenBeforeNextRebuild ==
    /\ rebuildsConsumed <= nReceived + 1
    /\ mainpc = "range" => rebuildsConsumed = nReceived
    /\ (Alive /\ mainpc = "serve_up" /\ nWaiting = 0) =>
          /\ ~ENABLED loop_serverUp
          /\ ~ENABLED rebuild_handoff
          /\ rebuildsConsumed = nReceived + 1

C17_Witness ==
    /\ Alive /\ mainpc = "serve_up" /\ nWaiting = 0 /\ listener = "startup"
    /\ pumppc = "send" /\ rebuildsConsumed = nReceived + 1
    /\ nWrites = rebuildsConsumed + 1

\* C18: the listener that holds the port is never the one of the
\* Orchestrator's own serveContent call: that call always fails to bind, and
\* the Orchestrator is never blocked in ListenAndServe.
C18_StartupHoldsPort == listener # "main" /\ mainpc # "serve_listening"

\* C19: a failed launch of the browser is shown to the user and leaves the
\* watch/serve loop as a successful launch does: run goes on to its receive
\* on rebuild.
C19_PreviewFailureReported ==
    previewState = "failed" =>
        /\ previewErrShown
        /\ mainpc \in WatchModePlaces \ {"run_go", "preview"}

=============================================================================
